---- MODULE Spec2Model ----
(***************************************************************************)
(* Direct-messaging backend of the instagram-clone application: the user   *)
(* directory (follow / block / privacy), the Conversation and Message      *)
(* mongoose models and the REST handlers of routes/messages.js.            *)
(***************************************************************************)
EXTENDS Integers, Sequences, FiniteSets, TLC

\* ---------------------------------------------------------------- bounds
MaxConvs == 2
MaxMsgs == 2
MaxPeriods == 1
MaxJitter == 1
MaxEdits == 2
MaxEditMsgs == 1
MaxArchives == 2

\* ------------------------------------------------------ program constants
editTimeLimit == 15 * 60 * 1000
DefaultMaxParticipants == 50
DefaultLimit == 50
DefaultConvLimit == 20

Users == {"u1", "u2", "u3"}
None == "none"

\* the socket.io connections the server may hold
SocketIds == {"s1", "s2"}

\* the requests the server may be working on at the same time, each
\* suspended at an await of its handler
RequestIds == {"r1", "r2"}

VARIABLES blockedUsers, followers, following, allowMessagesFrom,
          convs, msgs, now, resp, sockets, inflight, readCalls, muteCalls

dirVars == <<blockedUsers, followers, following, allowMessagesFrom>>
logVars == <<readCalls, muteCalls>>
vars == <<blockedUsers, followers, following, allowMessagesFrom,
          convs, msgs, now, resp, sockets, inflight, readCalls, muteCalls>>

\* ---------------------------------------------------------------- helpers
Range(s) == {s[i] : i \in 1..Len(s)}

\* Array.prototype.filter on a list of sub-documents keyed by .user
FilterOutUser(s, u) == SelectSeq(s, LAMBDA e : e.user # u)

\* Array.prototype.filter on a list of plain ids
FilterOutId(s, u) == SelectSeq(s, LAMBDA e : e # u)

\* Array.prototype.find: index of the first entry whose .user is u, 0 if none
FindUserIdx(s, u) ==
  IF \E i \in 1..Len(s) : s[i].user = u
  THEN CHOOSE i \in 1..Len(s) : s[i].user = u /\ \A j \in 1..(i-1) : s[j].user # u
  ELSE 0

\* String.prototype.trim / the schema's trim: true, on a text held as a
\* sequence of characters
RECURSIVE TrimLeft(_)
TrimLeft(t) == IF t # <<>> /\ Head(t) = " " THEN TrimLeft(Tail(t)) ELSE t

RECURSIVE TrimRight(_)
TrimRight(t) ==
  IF t # <<>> /\ t[Len(t)] = " " THEN TrimRight(SubSeq(t, 1, Len(t) - 1)) ELSE t

Trim(t) == TrimRight(TrimLeft(t))

\* the last response sent by the server: the handler, the authenticated
\* user, the status, the ids it is about, the page returned with the
\* <<limit, page>> it was asked for, the recipient named by the request
\* and the time of the answer
Reply(op, u, status, c, m, page, to) ==
  [op |-> op, user |-> u, status |-> status, conv |-> c, msg |-> m,
   page |-> page, query |-> <<>>, to |-> to, at |-> now]

NoReply ==
  [op |-> "none", user |-> None, status |-> 0, conv |-> 0, msg |-> 0,
   page |-> <<>>, query |-> <<>>, to |-> None, at |-> 0]

\* the socket.io server before any client has connected: per connection,
\* whether it is open, the rooms it has joined, the events emitted to it
\* and the events it sent for which the server has no listener
NoSockets ==
  [s \in SocketIds |->
     [connected |-> FALSE, rooms |-> {}, received |-> {}, dropped |-> {}]]

\* a request slot with no request in it
Idle ==
  [pc |-> "idle", user |-> None, conv |-> 0, to |-> None, text |-> <<>>,
   msg |-> 0, doc |-> <<>>]

NoRequests == [r \in RequestIds |-> Idle]

\* ------------------------------------------------------------------- Init
Init ==
  /\ blockedUsers = [u \in Users |-> {}]
  /\ followers = [u \in Users |-> {}]
  /\ following = [u \in Users |-> {}]
  /\ allowMessagesFrom = [u \in Users |-> "followers"]
  /\ convs = <<>>
  /\ msgs = <<>>
  /\ now = 0
  /\ resp = NoReply
  /\ sockets = NoSockets
  /\ inflight = NoRequests
  /\ readCalls = {}
  /\ muteCalls = {}

\* --------------------------------------------------------- user directory
\* POST /api/users/:userId/follow
Follow(u, t) ==
  /\ IF u = t \/ t \in following[u]
     THEN /\ resp' = Reply("follow", u, 400, 0, 0, <<>>, t)
          /\ UNCHANGED <<followers, following>>
     ELSE /\ following' = [following EXCEPT ![u] = @ \cup {t}]
          /\ followers' = [followers EXCEPT ![t] = @ \cup {u}]
          /\ resp' = Reply("follow", u, 200, 0, 0, <<>>, t)
  /\ UNCHANGED <<blockedUsers, allowMessagesFrom, convs, msgs, now, sockets, inflight>>

\* DELETE /api/users/:userId/follow
Unfollow(u, t) ==
  /\ IF u = t \/ t \notin following[u]
     THEN /\ resp' = Reply("unfollow", u, 400, 0, 0, <<>>, t)
          /\ UNCHANGED <<followers, following>>
     ELSE /\ following' = [following EXCEPT ![u] = @ \ {t}]
          /\ followers' = [followers EXCEPT ![t] = @ \ {u}]
          /\ resp' = Reply("unfollow", u, 200, 0, 0, <<>>, t)
  /\ UNCHANGED <<blockedUsers, allowMessagesFrom, convs, msgs, now, sockets, inflight>>

\* POST /api/users/:userId/block
Block(u, t) ==
  /\ IF u = t \/ t \in blockedUsers[u]
     THEN /\ resp' = Reply("block", u, 400, 0, 0, <<>>, t)
          /\ UNCHANGED <<blockedUsers, followers, following>>
     ELSE /\ blockedUsers' = [blockedUsers EXCEPT ![u] = @ \cup {t}]
          /\ following' = [following EXCEPT ![u] = @ \ {t}, ![t] = @ \ {u}]
          /\ followers' = [followers EXCEPT ![u] = @ \ {t}, ![t] = @ \ {u}]
          /\ resp' = Reply("block", u, 200, 0, 0, <<>>, t)
  /\ UNCHANGED <<allowMessagesFrom, convs, msgs, now, sockets, inflight>>

\* DELETE /api/users/:userId/block
Unblock(u, t) ==
  /\ IF u = t \/ t \notin blockedUsers[u]
     THEN /\ resp' = Reply("unblock", u, 400, 0, 0, <<>>, t)
          /\ UNCHANGED blockedUsers
     ELSE /\ blockedUsers' = [blockedUsers EXCEPT ![u] = @ \ {t}]
          /\ resp' = Reply("unblock", u, 200, 0, 0, <<>>, t)
  /\ UNCHANGED <<followers, following, allowMessagesFrom, convs, msgs, now, sockets, inflight>>

\* PUT /api/users/privacy {allowMessagesFrom}; the schema enum is enforced
\* by runValidators
UpdatePrivacy(u, v) ==
  /\ IF v = None
     THEN /\ resp' = Reply("privacy", u, 200, 0, 0, <<>>, None)
          /\ UNCHANGED allowMessagesFrom
     ELSE IF v \notin {"everyone", "followers"}
     THEN /\ resp' = Reply("privacy", u, 500, 0, 0, <<>>, None)
          /\ UNCHANGED allowMessagesFrom
     ELSE /\ allowMessagesFrom' = [allowMessagesFrom EXCEPT ![u] = v]
          /\ resp' = Reply("privacy", u, 200, 0, 0, <<>>, None)
  /\ UNCHANGED <<blockedUsers, followers, following, convs, msgs, now, sockets, inflight>>

\* middleware canMessageUser: 0 when the request is passed on (next()),
\* the status of the rejection otherwise
NoSenderBlockCheck(u, r) ==
  IF u = r THEN 400
  ELSE IF r \notin Users THEN 404
  ELSE IF u \in blockedUsers[r] THEN 403
  ELSE IF allowMessagesFrom[r] = "followers" /\ u \notin followers[r] THEN 403
  ELSE 0

canMessageUser(u, r) ==
  IF u = r THEN 400
  ELSE IF r \notin Users THEN 404
  ELSE IF u \in blockedUsers[r] THEN 403
  ELSE IF r \in blockedUsers[u] THEN 403
  ELSE IF allowMessagesFrom[r] = "followers" /\ u \notin followers[r] THEN 403
  ELSE 0

\* ----------------------------------------------------- Conversation model
\* new Conversation({participants, isGroup, groupInfo}) with the schema
\* defaults: no default is declared for unreadCounts, participantSettings,
\* deletedBy or archivedBy, so each starts as an empty array; deletedAt
\* has no default and is absent (<<>>)
NewConversation(parts, isGroup, name, creator, admins, maxParticipants) ==
  [participants |-> parts,
   isGroup |-> isGroup,
   groupName |-> name,
   createdBy |-> creator,
   admins |-> admins,
   maxParticipants |-> maxParticipants,
   lastMessage |-> 0,
   lastMessageAt |-> now,
   totalMessages |-> 0,
   unreadCounts |-> <<>>,
   participantSettings |-> <<>>,
   isDeleted |-> FALSE,
   deletedAt |-> <<>>,
   deletedBy |-> <<>>,
   archivedBy |-> <<>>]

\* virtual getUnreadCount(userId)
getUnreadCount(cv, u) ==
  LET i == FindUserIdx(cv.unreadCounts, u)
  IN  IF i = 0 THEN 0 ELSE cv.unreadCounts[i].count

\* methods.addParticipant
addParticipant(cv, u) ==
  IF u \in Range(cv.participants) THEN cv
  ELSE [cv EXCEPT
          !.participants = Append(@, u),
          !.unreadCounts = Append(@, [user |-> u, count |-> 0, lastReadAt |-> now]),
          !.participantSettings =
             Append(@, [user |-> u, isMuted |-> FALSE, isPinned |-> FALSE,
                        isArchived |-> FALSE])]

\* methods.removeParticipant
removeParticipant(cv, u) ==
  [cv EXCEPT !.participants = FilterOutId(@, u),
             !.unreadCounts = FilterOutUser(@, u),
             !.participantSettings = FilterOutUser(@, u)]

\* methods.updateLastMessage
updateLastMessage(cv, m) ==
  [cv EXCEPT !.lastMessage = m, !.lastMessageAt = now, !.totalMessages = @ + 1]

\* methods.incrementUnreadCount
incrementUnreadCount(cv, u) ==
  LET i == FindUserIdx(cv.unreadCounts, u)
  IN  IF i = 0 THEN cv
      ELSE [cv EXCEPT !.unreadCounts[i].count = @ + 1]

\* methods.markAsRead (Conversation)
markAsRead(cv, u) ==
  LET i == FindUserIdx(cv.unreadCounts, u)
  IN  IF i = 0 THEN cv
      ELSE [cv EXCEPT !.unreadCounts[i].count = 0,
                      !.unreadCounts[i].lastReadAt = now]

\* methods.muteForUser / methods.unmuteForUser
SetMuted(cv, u, v) ==
  LET i == FindUserIdx(cv.participantSettings, u)
  IN  IF i = 0 THEN cv
      ELSE [cv EXCEPT !.participantSettings[i].isMuted = v]

muteForUser(cv, u) == SetMuted(cv, u, TRUE)

unmuteForUser(cv, u) == SetMuted(cv, u, FALSE)

\* methods.pinForUser / methods.unpinForUser
SetPinned(cv, u, v) ==
  LET i == FindUserIdx(cv.participantSettings, u)
  IN  IF i = 0 THEN cv
      ELSE [cv EXCEPT !.participantSettings[i].isPinned = v]

pinForUser(cv, u) == SetPinned(cv, u, TRUE)

unpinForUser(cv, u) == SetPinned(cv, u, FALSE)

\* methods.archiveForUser / methods.unarchiveForUser
SetArchived(cv, u, v) ==
  LET i == FindUserIdx(cv.participantSettings, u)
  IN  IF i = 0 THEN cv
      ELSE [cv EXCEPT !.participantSettings[i].isArchived = v]

archiveForUser(cv, u) ==
  [SetArchived(cv, u, TRUE) EXCEPT
     !.archivedBy = Append(@, [user |-> u, archivedAt |-> now])]

unarchiveForUser(cv, u) ==
  [SetArchived(cv, u, FALSE) EXCEPT !.archivedBy = FilterOutUser(@, u)]

\* methods.softDelete (Conversation)
softDeleteConversation(cv, u) ==
  [cv EXCEPT !.isDeleted = TRUE,
             !.deletedAt = <<now>>,
             !.deletedBy = IF u \in Range(@) THEN @ ELSE Append(@, u)]

\* Conversation.find({participants: u, isDeleted: {$ne: true},
\* 'archivedBy.user': {$ne: u}}): the ids of the matching conversations
ListedFor(cs, u) ==
  {i \in 1..Len(cs) : /\ u \in Range(cs[i].participants)
                      /\ ~cs[i].isDeleted
                      /\ \A k \in 1..Len(cs[i].archivedBy) : cs[i].archivedBy[k].user # u}

\* .sort({lastMessageAt: -1}): the orders the store may return, any order
\* among conversations of equal lastMessageAt
SortedByLastMessageAt(cs, ids) ==
  {q \in [1..Cardinality(ids) -> ids] :
     /\ \A i \in 1..Cardinality(ids), j \in 1..Cardinality(ids) : i # j => q[i] # q[j]
     /\ \A i \in 1..Cardinality(ids), j \in 1..Cardinality(ids) :
          i < j => cs[q[i]].lastMessageAt >= cs[q[j]].lastMessageAt}

\* Conversation.findOne({participants: {$all: [a, b]}, isGroup: false,
\* isDeleted: {$ne: true}}): index of the first match, 0 when none
FindDirectDeletedOnly(cs, a, b) ==
  LET hit(i) == /\ {a, b} \subseteq Range(cs[i].participants)
                /\ ~cs[i].isGroup
                /\ cs[i].isDeleted
  IN  IF \E i \in 1..Len(cs) : hit(i)
      THEN CHOOSE i \in 1..Len(cs) : hit(i) /\ \A j \in 1..(i-1) : ~hit(j)
      ELSE 0

FindDirect(cs, a, b) ==
  LET hit(i) == /\ {a, b} \subseteq Range(cs[i].participants)
                /\ ~cs[i].isGroup
                /\ ~cs[i].isDeleted
  IN  IF \E i \in 1..Len(cs) : hit(i)
      THEN CHOOSE i \in 1..Len(cs) : hit(i) /\ \A j \in 1..(i-1) : ~hit(j)
      ELSE 0

\* the participant test of the handlers:
\* conversation.participants.some(p => p.toString() === req.user._id.toString())
IsParticipantUnchecked(cv, u) == TRUE

IsParticipant(cv, u) == u \in Range(cv.participants)

\* POST /api/messages/conversations, behind auth and canMessageUser; an
\* absent groupInfo has present = FALSE, an absent groupInfo.name is the
\* empty string (both are falsy), an absent groupInfo.participants has
\* hasParticipants = FALSE, an absent groupInfo.admins is <<>> and an
\* absent groupInfo.maxParticipants is 0. The stored groupInfo is
\* {...groupInfo, createdBy, admins: [creator]}: the client's
\* maxParticipants is kept, the client's admins are overwritten
PostConversations(u, recipientId, isGroup, groupInfo) ==
  LET st == canMessageUser(u, recipientId)
      i == FindDirect(convs, u, recipientId)
  IN
  /\ IF st # 0
     THEN /\ resp' = Reply(IF isGroup THEN "createGroup" ELSE "findOrCreateDirect", u, st, 0, 0, <<>>, recipientId)
          /\ UNCHANGED convs
     ELSE IF isGroup
     THEN IF ~groupInfo.present \/ groupInfo.name = <<>>
          THEN /\ resp' = Reply(IF isGroup THEN "createGroup" ELSE "findOrCreateDirect", u, 400, 0, 0, <<>>, recipientId)
               /\ UNCHANGED convs
          ELSE IF ~groupInfo.hasParticipants
          THEN /\ resp' = Reply(IF isGroup THEN "createGroup" ELSE "findOrCreateDirect", u, 500, 0, 0, <<>>, recipientId)
               /\ UNCHANGED convs
          ELSE /\ Len(convs) < MaxConvs
               /\ convs' = Append(convs,
                     NewConversation(<<u>> \o groupInfo.participants, TRUE,
                                     Trim(groupInfo.name), u, <<u>>,
                                     IF groupInfo.maxParticipants = 0
                                     THEN DefaultMaxParticipants
                                     ELSE groupInfo.maxParticipants))
               /\ resp' = Reply("createGroup", u, 201, Len(convs) + 1, 0, <<>>, recipientId)
     ELSE IF i # 0
     THEN /\ resp' = Reply("findOrCreateDirect", u, 200, i, 0, <<>>, recipientId)
          /\ UNCHANGED convs
     ELSE /\ Len(convs) < MaxConvs
          /\ convs' = Append(convs,
                NewConversation(<<u, recipientId>>, FALSE, <<>>, None, <<>>,
                                DefaultMaxParticipants))
          /\ resp' = Reply("findOrCreateDirect", u, 200, Len(convs) + 1, 0, <<>>, recipientId)
  /\ UNCHANGED <<dirVars, msgs, now, sockets, inflight>>

\* .limit(limit).skip(skip)
PageOf(ids, limit, skip) ==
  IF skip >= Len(ids) THEN <<>>
  ELSE SubSeq(ids, skip + 1, IF skip + limit < Len(ids) THEN skip + limit ELSE Len(ids))

\* GET /api/messages/conversations
GetConversations(u, limit, page) ==
  /\ \E q \in SortedByLastMessageAt(convs, ListedFor(convs, u)) :
        resp' = [Reply("listConversations", u, 200, 0, 0,
                       PageOf(q, limit, (page - 1) * limit), None)
                   EXCEPT !.query = <<limit, page>>]
  /\ UNCHANGED <<dirVars, convs, msgs, now, sockets, inflight>>

\* GET /api/messages/conversations/:conversationId
GetConversation(u, c) ==
  /\ IF c \notin 1..Len(convs)
     THEN /\ resp' = Reply("getConversation", u, 404, c, 0, <<>>, None)
          /\ UNCHANGED <<convs>>
     ELSE IF ~IsParticipant(convs[c], u)
     THEN /\ resp' = Reply("getConversation", u, 403, c, 0, <<>>, None)
          /\ UNCHANGED <<convs>>
     ELSE /\ convs' = [convs EXCEPT ![c] = markAsRead(@, u)]
          /\ resp' = Reply("getConversation", u, 200, c, 0, <<>>, None)
  /\ UNCHANGED <<dirVars, msgs, now, sockets, inflight>>

\* POST /api/messages/conversations/:conversationId/mute
Mute(u, c) ==
  /\ IF c \notin 1..Len(convs)
     THEN /\ resp' = Reply("mute", u, 404, c, 0, <<>>, None)
          /\ UNCHANGED <<convs>>
     ELSE IF ~IsParticipant(convs[c], u)
     THEN /\ resp' = Reply("mute", u, 403, c, 0, <<>>, None)
          /\ UNCHANGED <<convs>>
     ELSE /\ convs' = [convs EXCEPT ![c] = muteForUser(@, u)]
          /\ resp' = Reply("mute", u, 200, c, 0, <<>>, None)
  /\ UNCHANGED <<dirVars, msgs, now, sockets, inflight>>

\* DELETE /api/messages/conversations/:conversationId/mute
Unmute(u, c) ==
  /\ IF c \notin 1..Len(convs)
     THEN /\ resp' = Reply("unmute", u, 404, c, 0, <<>>, None)
          /\ UNCHANGED <<convs>>
     ELSE IF ~IsParticipant(convs[c], u)
     THEN /\ resp' = Reply("unmute", u, 403, c, 0, <<>>, None)
          /\ UNCHANGED <<convs>>
     ELSE /\ convs' = [convs EXCEPT ![c] = unmuteForUser(@, u)]
          /\ resp' = Reply("unmute", u, 200, c, 0, <<>>, None)
  /\ UNCHANGED <<dirVars, msgs, now, sockets, inflight>>

\* ---------------------------------------------------------- Message model
\* new Message({...}) with the schema defaults; content.text has trim: true
NewMessage(c, sender, recipient, ctype, text, hasMedia, replyTo) ==
  [conversation |-> c,
   sender |-> sender,
   recipient |-> recipient,
   ctype |-> ctype,
   text |-> Trim(text),
   hasMedia |-> hasMedia,
   replyTo |-> replyTo,
   isRead |-> FALSE,
   readAt |-> <<>>,
   isDelivered |-> FALSE,
   deliveredAt |-> <<>>,
   reactions |-> <<>>,
   isEdited |-> FALSE,
   editHistory |-> <<>>,
   isDeleted |-> FALSE,
   deletedAt |-> <<>>,
   deletedBy |-> None,
   createdAt |-> now]

\* methods.markAsRead (Message)
markMessageAsRead(m) ==
  IF ~m.isRead
  THEN [m EXCEPT !.isRead = TRUE, !.readAt = <<now>>]
  ELSE m

\* methods.markAsDelivered
markAsDeliveredUnguarded(m) ==
  [m EXCEPT !.isDelivered = TRUE, !.deliveredAt = <<now>>]

markAsDelivered(m) ==
  IF ~m.isDelivered
  THEN [m EXCEPT !.isDelivered = TRUE, !.deliveredAt = <<now>>]
  ELSE m

\* methods.removeReaction
removeReaction(m, u) == [m EXCEPT !.reactions = FilterOutUser(@, u)]

\* methods.addReaction
addReactionNoFilter(m, u, emoji) ==
  [m EXCEPT !.reactions = Append(@, [user |-> u, emoji |-> emoji])]

addReaction(m, u, emoji) ==
  [m EXCEPT !.reactions = Append(FilterOutUser(@, u), [user |-> u, emoji |-> emoji])]

\* methods.edit
editRecordsNewText(m, newText) ==
  IF m.ctype = "text"
  THEN [m EXCEPT !.editHistory = Append(@, Trim(newText)),
                 !.text = Trim(newText),
                 !.isEdited = TRUE]
  ELSE m

edit(m, newText) ==
  IF m.ctype = "text"
  THEN [m EXCEPT !.editHistory = Append(@, m.text),
                 !.text = Trim(newText),
                 !.isEdited = TRUE]
  ELSE m

\* methods.softDelete (Message)
softDelete(m, u) ==
  [m EXCEPT !.isDeleted = TRUE, !.deletedAt = <<now>>, !.deletedBy = u]

\* Message.find({conversation, isDeleted: {$ne: true}}).sort({createdAt: -1}):
\* the ids of the matching messages, newest first
RECURSIVE NewestFirstAll(_, _)
NewestFirstAll(ms, c) ==
  IF ms = <<>> THEN <<>>
  ELSE LET n == Len(ms)
           rest == NewestFirstAll(SubSeq(ms, 1, n - 1), c)
       IN  IF ms[n].conversation = c THEN <<n>> \o rest ELSE rest

RECURSIVE NewestFirst(_, _)
NewestFirst(ms, c) ==
  IF ms = <<>> THEN <<>>
  ELSE LET n == Len(ms)
           rest == NewestFirst(SubSeq(ms, 1, n - 1), c)
       IN  IF ms[n].conversation = c /\ ~ms[n].isDeleted THEN <<n>> \o rest ELSE rest

\* messages.reverse()
Reverse(s) == [i \in 1..Len(s) |-> s[Len(s) + 1 - i]]

\* content.type chosen from req.file.mimetype
ContentType(file) ==
  IF file = None THEN "text"
  ELSE IF file = "image/" THEN "image"
  ELSE IF file = "video/" THEN "video"
  ELSE IF file = "audio/" THEN "audio"
  ELSE "file"

\* GET /api/messages/conversations/:conversationId/messages
GetMessages(u, c, limit, page) ==
  /\ IF c \notin 1..Len(convs)
     THEN /\ resp' = Reply("listByConversation", u, 404, c, 0, <<>>, None)
          /\ UNCHANGED <<convs, msgs>>
     ELSE IF ~IsParticipant(convs[c], u)
     THEN /\ resp' = Reply("listByConversation", u, 403, c, 0, <<>>, None)
          /\ UNCHANGED <<convs, msgs>>
     ELSE LET messages == PageOf(NewestFirst(msgs, c), limit, (page - 1) * limit)
          IN  /\ convs' = [convs EXCEPT ![c] = markAsRead(@, u)]
              /\ msgs' = [i \in 1..Len(msgs) |->
                            IF /\ i \in Range(messages)
                               /\ msgs[i].recipient = u
                               /\ ~msgs[i].isDelivered
                            THEN markAsDelivered(msgs[i])
                            ELSE msgs[i]]
              /\ resp' = [Reply("listByConversation", u, 200, c, 0, Reverse(messages), None)
                            EXCEPT !.query = <<limit, page>>]
  /\ UNCHANGED <<dirVars, now, sockets, inflight>>

\* POST /api/messages/conversations/:conversationId/messages; an absent
\* text is the empty string (text || ''), an absent replyTo is 0, an
\* absent upload is None
SendMessage(u, c, text, file, replyTo) ==
  /\ IF c \notin 1..Len(convs)
     THEN /\ resp' = Reply("send", u, 404, c, 0, <<>>, None)
          /\ UNCHANGED <<convs, msgs>>
     ELSE IF ~IsParticipant(convs[c], u)
     THEN /\ resp' = Reply("send", u, 403, c, 0, <<>>, None)
          /\ UNCHANGED <<convs, msgs>>
     ELSE LET cv == convs[c]
              i == FindUserIdx(cv.participantSettings, u)
              others == FilterOutId(cv.participants, u)
              recipientId == IF cv.isGroup THEN u
                             ELSE IF others = <<>> THEN None ELSE Head(others)
              id == Len(msgs) + 1
          IN  IF i # 0 /\ cv.participantSettings[i].isMuted
              THEN /\ resp' = Reply("send", u, 400, c, 0, <<>>, None)
                   /\ UNCHANGED <<convs, msgs>>
              ELSE IF recipientId = None
              THEN \* recipient is required: message.save() rejects
                   /\ resp' = Reply("send", u, 500, c, 0, <<>>, None)
                   /\ UNCHANGED <<convs, msgs>>
              ELSE /\ Len(msgs) < MaxMsgs
                   /\ msgs' = Append(msgs,
                        NewMessage(c, u, recipientId, ContentType(file),
                                   text, file # None, replyTo))
                   /\ convs' = [convs EXCEPT ![c] =
                        IF cv.isGroup THEN updateLastMessage(cv, id)
                        ELSE incrementUnreadCount(updateLastMessage(cv, id), recipientId)]
                   /\ resp' = Reply("send", u, 201, c, id, <<>>, recipientId)
  /\ UNCHANGED <<dirVars, now, sockets, inflight>>

\* the same handler when the store rejects one of its awaited calls, named
\* by failAt: "message.save", "updateLastMessage", "incrementUnreadCount"
\* or "populate". The rejection is caught by the handler's catch, which
\* answers 500; what was saved before it stays saved
SendMessageStoreFailure(u, c, text, file, replyTo, failAt) ==
  /\ c \in 1..Len(convs)
  /\ IsParticipant(convs[c], u)
  /\ LET cv == convs[c]
         i == FindUserIdx(cv.participantSettings, u)
         others == FilterOutId(cv.participants, u)
         recipientId == IF cv.isGroup THEN u
                        ELSE IF others = <<>> THEN None ELSE Head(others)
         id == Len(msgs) + 1
         saved == Append(msgs, NewMessage(c, u, recipientId, ContentType(file),
                                          text, file # None, replyTo))
     IN  /\ ~(i # 0 /\ cv.participantSettings[i].isMuted)
         /\ recipientId # None
         /\ Len(msgs) < MaxMsgs
         /\ failAt = "incrementUnreadCount" => ~cv.isGroup
         /\ msgs' = IF failAt = "message.save" THEN msgs ELSE saved
         /\ convs' = IF failAt \in {"message.save", "updateLastMessage"}
                     THEN convs
                     ELSE IF failAt = "incrementUnreadCount" \/ cv.isGroup
                     THEN [convs EXCEPT ![c] = updateLastMessage(cv, id)]
                     ELSE [convs EXCEPT ![c] =
                             incrementUnreadCount(updateLastMessage(cv, id), recipientId)]
         /\ resp' = Reply("send", u, 500, c, 0, <<>>, recipientId)
  /\ UNCHANGED <<dirVars, now, sockets, inflight>>

\* PUT /api/messages/:messageId
EditWindowInSeconds(m, t) == t - m.createdAt > editTimeLimit * 1000

EditWindowExpired(m, t) == t - m.createdAt > editTimeLimit

EditMessageDeletedUnchecked(u, m, text) ==
  /\ IF Trim(text) = <<>>
     THEN /\ resp' = Reply("edit", u, 400, 0, m, <<>>, None)
          /\ UNCHANGED msgs
     ELSE IF m \notin 1..Len(msgs)
     THEN /\ resp' = Reply("edit", u, 404, 0, m, <<>>, None)
          /\ UNCHANGED msgs
     ELSE IF msgs[m].sender # u
     THEN /\ resp' = Reply("edit", u, 403, 0, m, <<>>, None)
          /\ UNCHANGED msgs
     ELSE IF EditWindowExpired(msgs[m], now)
     THEN /\ resp' = Reply("edit", u, 400, 0, m, <<>>, None)
          /\ UNCHANGED msgs
     ELSE /\ Len(msgs[m].editHistory) < MaxEdits
          /\ msgs' = [msgs EXCEPT ![m] = edit(@, Trim(text))]
          /\ resp' = Reply("edit", u, 200, 0, m, <<>>, None)
  /\ UNCHANGED <<dirVars, convs, now, sockets, inflight>>

EditMessage(u, m, text) ==
  /\ IF Trim(text) = <<>>
     THEN /\ resp' = Reply("edit", u, 400, 0, m, <<>>, None)
          /\ UNCHANGED msgs
     ELSE IF m \notin 1..Len(msgs) \/ msgs[m].isDeleted
     THEN /\ resp' = Reply("edit", u, 404, 0, m, <<>>, None)
          /\ UNCHANGED msgs
     ELSE IF msgs[m].sender # u
     THEN /\ resp' = Reply("edit", u, 403, 0, m, <<>>, None)
          /\ UNCHANGED msgs
     ELSE IF EditWindowExpired(msgs[m], now)
     THEN /\ resp' = Reply("edit", u, 400, 0, m, <<>>, None)
          /\ UNCHANGED msgs
     ELSE /\ Len(msgs[m].editHistory) < MaxEdits
          /\ msgs' = [msgs EXCEPT ![m] = edit(@, Trim(text))]
          /\ resp' = Reply("edit", u, 200, 0, m, <<>>, None)
  /\ UNCHANGED <<dirVars, convs, now, sockets, inflight>>

\* DELETE /api/messages/:messageId
DeleteMessageAnyUser(u, m) ==
  /\ IF m \notin 1..Len(msgs) \/ msgs[m].isDeleted
     THEN /\ resp' = Reply("softDelete", u, 404, 0, m, <<>>, None)
          /\ UNCHANGED msgs
     ELSE /\ msgs' = [msgs EXCEPT ![m] = softDelete(@, u)]
          /\ resp' = Reply("softDelete", u, 200, 0, m, <<>>, None)
  /\ UNCHANGED <<dirVars, convs, now, sockets, inflight>>

DeleteMessage(u, m) ==
  /\ IF m \notin 1..Len(msgs) \/ msgs[m].isDeleted
     THEN /\ resp' = Reply("softDelete", u, 404, 0, m, <<>>, None)
          /\ UNCHANGED msgs
     ELSE IF msgs[m].sender # u
     THEN /\ resp' = Reply("softDelete", u, 403, 0, m, <<>>, None)
          /\ UNCHANGED msgs
     ELSE /\ msgs' = [msgs EXCEPT ![m] = softDelete(@, u)]
          /\ resp' = Reply("softDelete", u, 200, 0, m, <<>>, None)
  /\ UNCHANGED <<dirVars, convs, now, sockets, inflight>>

\* POST /api/messages/:messageId/reactions
React(u, m, emoji) ==
  /\ IF emoji = None
     THEN /\ resp' = Reply("react", u, 400, 0, m, <<>>, None)
          /\ UNCHANGED msgs
     ELSE IF m \notin 1..Len(msgs) \/ msgs[m].isDeleted
     THEN /\ resp' = Reply("react", u, 404, 0, m, <<>>, None)
          /\ UNCHANGED msgs
     ELSE /\ msgs' = [msgs EXCEPT ![m] = addReaction(@, u, emoji)]
          /\ resp' = Reply("react", u, 200, 0, m, <<>>, None)
  /\ UNCHANGED <<dirVars, convs, now, sockets, inflight>>

\* DELETE /api/messages/:messageId/reactions
Unreact(u, m) ==
  /\ IF m \notin 1..Len(msgs) \/ msgs[m].isDeleted
     THEN /\ resp' = Reply("unreact", u, 404, 0, m, <<>>, None)
          /\ UNCHANGED msgs
     ELSE /\ msgs' = [msgs EXCEPT ![m] = removeReaction(@, u)]
          /\ resp' = Reply("unreact", u, 200, 0, m, <<>>, None)
  /\ UNCHANGED <<dirVars, convs, now, sockets, inflight>>

\* the wall clock read by Date.now() / new Date(), in milliseconds; it is
\* followed over MaxPeriods edit windows and MaxJitter milliseconds around
\* each window boundary
Tick(d) ==
  /\ (now + d) \div editTimeLimit <= MaxPeriods
  /\ (now + d) % editTimeLimit <= MaxJitter
  /\ now' = now + d
  /\ UNCHANGED <<dirVars, convs, msgs, resp, sockets, inflight>>

\* Conversation.addParticipant / removeParticipant called on a stored document
AddParticipant(c, u) ==
  /\ c \in 1..Len(convs)
  /\ convs' = [convs EXCEPT ![c] = addParticipant(@, u)]
  /\ resp' = Reply("addParticipant", u, 200, c, 0, <<>>, None)
  /\ UNCHANGED <<dirVars, msgs, now, sockets, inflight>>

RemoveParticipant(c, u) ==
  /\ c \in 1..Len(convs)
  /\ convs' = [convs EXCEPT ![c] = removeParticipant(@, u)]
  /\ resp' = Reply("removeParticipant", u, 200, c, 0, <<>>, None)
  /\ UNCHANGED <<dirVars, msgs, now, sockets, inflight>>

\* Conversation.pinForUser / unpinForUser / archiveForUser /
\* unarchiveForUser called on a stored document
PinForUser(c, u) ==
  /\ c \in 1..Len(convs)
  /\ convs' = [convs EXCEPT ![c] = pinForUser(@, u)]
  /\ resp' = Reply("pin", u, 200, c, 0, <<>>, None)
  /\ UNCHANGED <<dirVars, msgs, now, sockets, inflight>>

UnpinForUser(c, u) ==
  /\ c \in 1..Len(convs)
  /\ convs' = [convs EXCEPT ![c] = unpinForUser(@, u)]
  /\ resp' = Reply("unpin", u, 200, c, 0, <<>>, None)
  /\ UNCHANGED <<dirVars, msgs, now, sockets, inflight>>

ArchiveForUser(c, u) ==
  /\ c \in 1..Len(convs)
  /\ convs' = [convs EXCEPT ![c] = archiveForUser(@, u)]
  /\ resp' = Reply("archive", u, 200, c, 0, <<>>, None)
  /\ UNCHANGED <<dirVars, msgs, now, sockets, inflight>>

UnarchiveForUser(c, u) ==
  /\ c \in 1..Len(convs)
  /\ convs' = [convs EXCEPT ![c] = unarchiveForUser(@, u)]
  /\ resp' = Reply("unarchive", u, 200, c, 0, <<>>, None)
  /\ UNCHANGED <<dirVars, msgs, now, sockets, inflight>>

\* Conversation.softDelete called on a stored document
SoftDeleteConversation(c, u) ==
  /\ c \in 1..Len(convs)
  /\ convs' = [convs EXCEPT ![c] = softDeleteConversation(@, u)]
  /\ resp' = Reply("softDeleteConversation", u, 200, c, 0, <<>>, None)
  /\ UNCHANGED <<dirVars, msgs, now, sockets, inflight>>

\* Message.markAsDelivered / markAsRead called on a stored document; both
\* resolve with the saved document
MarkAsDelivered(m) ==
  /\ m \in 1..Len(msgs)
  /\ msgs' = [msgs EXCEPT ![m] = markAsDelivered(@)]
  /\ resp' = Reply("markDelivered", None, 200, 0, m, <<>>, None)
  /\ UNCHANGED <<dirVars, convs, now, sockets, inflight>>

MarkAsRead(m) ==
  /\ m \in 1..Len(msgs)
  /\ msgs' = [msgs EXCEPT ![m] = markMessageAsRead(@)]
  /\ resp' = Reply("markRead", None, 200, 0, m, <<>>, None)
  /\ UNCHANGED <<dirVars, convs, now, sockets, inflight>>

\* ------------------------------------------------- handlers, await by await
\* The handlers are async functions: between two awaits of one request the
\* server may run another request. A request in slot r is followed from
\* one store call to the next; doc is the conversation document the
\* request holds in memory, which save() writes back path by path: only
\* the paths the request has modified are sent to the store.
\*
\* POST /conversations/:conversationId/messages up to message.save():
\* Conversation.findById has resolved, the checks are made on the loaded
\* document
SendFind(r, u, c, text) ==
  /\ inflight[r].pc = "idle"
  /\ IF c \notin 1..Len(convs)
     THEN /\ resp' = Reply("send", u, 404, c, 0, <<>>, None)
          /\ UNCHANGED inflight
     ELSE IF ~IsParticipant(convs[c], u)
     THEN /\ resp' = Reply("send", u, 403, c, 0, <<>>, None)
          /\ UNCHANGED inflight
     ELSE LET cv == convs[c]
              i == FindUserIdx(cv.participantSettings, u)
              others == FilterOutId(cv.participants, u)
              recipientId == IF cv.isGroup THEN u
                             ELSE IF others = <<>> THEN None ELSE Head(others)
          IN  IF i # 0 /\ cv.participantSettings[i].isMuted
              THEN /\ resp' = Reply("send", u, 400, c, 0, <<>>, None)
                   /\ UNCHANGED inflight
              ELSE IF recipientId = None
              THEN /\ resp' = Reply("send", u, 500, c, 0, <<>>, None)
                   /\ UNCHANGED inflight
              ELSE /\ inflight' = [inflight EXCEPT ![r] =
                         [pc |-> "message.save", user |-> u, conv |-> c,
                          to |-> recipientId, text |-> text, msg |-> 0,
                          doc |-> <<cv>>]]
                   /\ UNCHANGED resp
  /\ UNCHANGED <<dirVars, convs, msgs, now, sockets>>

\* message.save() resolves: the message is stored; updateLastMessage then
\* changes the document in memory and calls save()
SendSaveMessage(r) ==
  LET q == inflight[r]
      id == Len(msgs) + 1
  IN  /\ q.pc = "message.save"
      /\ Len(msgs) < MaxMsgs
      /\ msgs' = Append(msgs, NewMessage(q.conv, q.user, q.to, "text", q.text, FALSE, 0))
      /\ inflight' = [inflight EXCEPT ![r].pc = "updateLastMessage",
                                      ![r].msg = id,
                                      ![r].doc = <<updateLastMessage(q.doc[1], id)>>]
      /\ UNCHANGED <<dirVars, convs, now, resp, sockets>>

\* the save() of updateLastMessage resolves: lastMessage, lastMessageAt and
\* metadata.totalMessages of the stored conversation take the values of
\* the document in memory; in a direct conversation incrementUnreadCount
\* then changes the document in memory and calls save(), in a group the
\* request is answered
SendSaveLastMessage(r) ==
  LET q == inflight[r]
      d == q.doc[1]
  IN  /\ q.pc = "updateLastMessage"
      /\ convs' = [convs EXCEPT ![q.conv].lastMessage = d.lastMessage,
                                ![q.conv].lastMessageAt = d.lastMessageAt,
                                ![q.conv].totalMessages = d.totalMessages]
      /\ IF d.isGroup
         THEN /\ resp' = Reply("send", q.user, 201, q.conv, q.msg, <<>>, q.to)
              /\ inflight' = [inflight EXCEPT ![r] = Idle]
         ELSE /\ inflight' = [inflight EXCEPT ![r].pc = "incrementUnreadCount",
                                              ![r].doc = <<incrementUnreadCount(d, q.to)>>]
              /\ UNCHANGED resp
      /\ UNCHANGED <<dirVars, msgs, now, sockets>>

\* the save() of incrementUnreadCount resolves: if the document in memory
\* has an unreadCounts entry for the recipient, the count of that entry
\* in the store takes the value of the document in memory; the request is
\* answered
SendSaveUnreadCount(r) ==
  LET q == inflight[r]
      d == q.doc[1]
      i == FindUserIdx(d.unreadCounts, q.to)
  IN  /\ q.pc = "incrementUnreadCount"
      /\ convs' = IF i = 0 \/ i > Len(convs[q.conv].unreadCounts)
                  THEN convs
                  ELSE [convs EXCEPT ![q.conv].unreadCounts[i].count =
                                        d.unreadCounts[i].count]
      /\ resp' = Reply("send", q.user, 201, q.conv, q.msg, <<>>, q.to)
      /\ inflight' = [inflight EXCEPT ![r] = Idle]
      /\ UNCHANGED <<dirVars, msgs, now, sockets>>

\* POST /conversations, direct branch, up to conversation.save():
\* canMessageUser has passed the request on and Conversation.findOne has
\* resolved
CreateFind(r, u, recipientId) ==
  LET st == canMessageUser(u, recipientId)
      i == FindDirect(convs, u, recipientId)
  IN  /\ inflight[r].pc = "idle"
      /\ IF st # 0
         THEN /\ resp' = Reply("findOrCreateDirect", u, st, 0, 0, <<>>, recipientId)
              /\ UNCHANGED inflight
         ELSE IF i # 0
         THEN /\ resp' = Reply("findOrCreateDirect", u, 200, i, 0, <<>>, recipientId)
              /\ UNCHANGED inflight
         ELSE /\ inflight' = [inflight EXCEPT ![r] =
                    [Idle EXCEPT !.pc = "conversation.save", !.user = u,
                                 !.to = recipientId]]
              /\ UNCHANGED resp
      /\ UNCHANGED <<dirVars, convs, msgs, now, sockets>>

\* conversation.save() resolves: the new conversation is stored and the
\* request is answered with it
CreateSave(r) ==
  LET q == inflight[r]
  IN  /\ q.pc = "conversation.save"
      /\ Len(convs) < MaxConvs
      /\ convs' = Append(convs,
            NewConversation(<<q.user, q.to>>, FALSE, <<>>, None, <<>>,
                            DefaultMaxParticipants))
      /\ resp' = Reply("findOrCreateDirect", q.user, 200, Len(convs) + 1, 0, <<>>, q.to)
      /\ inflight' = [inflight EXCEPT ![r] = Idle]
      /\ UNCHANGED <<dirVars, msgs, now, sockets>>

\* ------------------------------------------------------- socket.io server
\* io.on('connection'): a client opens connection s; socket.io puts every
\* new socket in the room named by its own id
Connect(s) ==
  /\ ~sockets[s].connected
  /\ sockets' = [sockets EXCEPT ![s] =
                   [connected |-> TRUE, rooms |-> {s}, received |-> {}, dropped |-> {}]]
  /\ UNCHANGED <<dirVars, convs, msgs, now, resp, inflight>>

\* the user logged in at the client that opened each connection. The
\* server accepts the connection without asking who that is and keeps no
\* record of it
ConnectionUser == [s \in SocketIds |-> IF s = "s1" THEN "u1" ELSE "u2"]

\* socket.on('join', userId): the socket joins the room named by the
\* userId the client sent
Join(s, userId) ==
  /\ sockets[s].connected
  /\ sockets' = [sockets EXCEPT ![s].rooms = @ \cup {userId}]
  /\ UNCHANGED <<dirVars, convs, msgs, now, resp, inflight>>

\* socket.to(room).emit(event, data): every connected socket of the room
\* but the emitting one receives the event
EmitTo(from, room, event, data) ==
  [t \in SocketIds |->
     IF t # from /\ sockets[t].connected /\ room \in sockets[t].rooms
     THEN [sockets[t] EXCEPT !.received = @ \cup {[event |-> event, data |-> data]}]
     ELSE sockets[t]]

\* socket.on('send_message', data)
SendMessageEvent(s, data) ==
  /\ sockets[s].connected
  /\ sockets' = EmitTo(s, data.receiverId, "receive_message", data)
  /\ UNCHANGED <<dirVars, convs, msgs, now, resp, inflight>>

\* a client emits typing_start / typing_stop (frontend handleTyping): the
\* connection handler registers no listener for either event, so the
\* server drops it and emits nothing
TypingEvent(s, event, data) ==
  /\ sockets[s].connected
  /\ sockets' = [sockets EXCEPT ![s].dropped = @ \cup {[event |-> event, data |-> data]}]
  /\ UNCHANGED <<dirVars, convs, msgs, now, resp, inflight>>

\* socket.on('disconnect'): the socket leaves its rooms
Disconnect(s) ==
  /\ sockets[s].connected
  /\ sockets' = [sockets EXCEPT ![s].connected = FALSE, ![s].rooms = {}]
  /\ UNCHANGED <<dirVars, convs, msgs, now, resp, inflight>>

\* ---------------------------------------------------------- specifications
\* readCalls and muteCalls are logs kept beside the program: the
\* (conversation, user) pairs for which the server answered 200 to a read
\* (GET conversation / GET messages), and those whose latest 200 answer to
\* mute / unmute was to a mute
Unlogged(A) == A /\ UNCHANGED logVars

ReadLogged(u, c, A) ==
  /\ A
  /\ readCalls' = IF resp'.status = 200 THEN readCalls \cup {<<c, u>>} ELSE readCalls
  /\ UNCHANGED muteCalls

MuteLogged(u, c, A) ==
  /\ A
  /\ muteCalls' = IF resp'.status = 200 THEN muteCalls \cup {<<c, u>>} ELSE muteCalls
  /\ UNCHANGED readCalls

UnmuteLogged(u, c, A) ==
  /\ A
  /\ muteCalls' = IF resp'.status = 200 THEN muteCalls \ {<<c, u>>} ELSE muteCalls
  /\ UNCHANGED readCalls

\* request bodies drawn for POST /conversations
NoGroupInfo ==
  [present |-> FALSE, name |-> <<>>, hasParticipants |-> FALSE, participants |-> <<>>,
   admins |-> <<>>, maxParticipants |-> 0]

GroupInfo(name, hasParticipants, participants, admins, maxParticipants) ==
  [present |-> TRUE, name |-> name, hasParticipants |-> hasParticipants,
   participants |-> participants, admins |-> admins,
   maxParticipants |-> maxParticipants]

GroupInfos ==
  {NoGroupInfo,
   GroupInfo(<<>>, TRUE, <<"u3">>, <<>>, 0),
   GroupInfo(<<"g">>, FALSE, <<>>, <<>>, 0),
   GroupInfo(<<"g">>, TRUE, <<"u3">>, <<>>, 0)}

PolicyInputs == {None, "everyone", "followers", "nobody"}

DirUsers == {"u1", "u2"}

ConvIds == 1..MaxConvs
MsgIds == 1..MaxMsgs

\* the user directory and conversation creation
DirectoryNext ==
  \/ \E u \in DirUsers, t \in DirUsers : Unlogged(Follow(u, t))
  \/ \E u \in DirUsers, t \in DirUsers : Unlogged(Unfollow(u, t))
  \/ \E u \in DirUsers, t \in DirUsers : Unlogged(Block(u, t))
  \/ \E u \in DirUsers, t \in DirUsers : Unlogged(Unblock(u, t))
  \/ \E u \in DirUsers, v \in PolicyInputs : Unlogged(UpdatePrivacy(u, v))
  \/ \E u \in DirUsers, r \in DirUsers \cup {None} :
        Unlogged(PostConversations(u, r, FALSE, NoGroupInfo))
  \/ \E r \in DirUsers, gi \in GroupInfos :
        Unlogged(PostConversations("u1", r, TRUE, gi))

SpecDirectory == Init /\ [][DirectoryNext]_vars

\* the messaging handlers, started after every user has opened messaging
\* to everyone through PUT /api/users/privacy
InitOpen ==
  /\ blockedUsers = [u \in Users |-> {}]
  /\ followers = [u \in Users |-> {}]
  /\ following = [u \in Users |-> {}]
  /\ allowMessagesFrom = [u \in Users |-> "everyone"]
  /\ convs = <<>>
  /\ msgs = <<>>
  /\ now = 0
  /\ resp = NoReply
  /\ sockets = NoSockets
  /\ inflight = NoRequests
  /\ readCalls = {}
  /\ muteCalls = {}

\* conversation access: u1 opens direct conversations, everybody sends,
\* lists, opens, mutes and unmutes
AccessNext ==
  \/ \E r \in Users : Unlogged(PostConversations("u1", r, FALSE, NoGroupInfo))
  \/ \E u \in Users, c \in ConvIds : Unlogged(SendMessage(u, c, <<"a">>, None, 0))
  \/ \E u \in Users, c \in ConvIds : Unlogged(GetMessages(u, c, DefaultLimit, 1))
  \/ \E u \in Users, c \in ConvIds : Unlogged(GetConversation(u, c))
  \/ \E u \in Users, c \in ConvIds : Unlogged(Mute(u, c))
  \/ \E u \in Users, c \in ConvIds : Unlogged(Unmute(u, c))

Spec == InitOpen /\ [][AccessNext]_vars

\* unread counters, with the reads logged
UnreadNext ==
  \/ \E r \in Users : Unlogged(PostConversations("u1", r, FALSE, NoGroupInfo))
  \/ \E u \in Users, c \in ConvIds : Unlogged(SendMessage(u, c, <<"a">>, None, 0))
  \/ \E u \in Users, c \in ConvIds : ReadLogged(u, c, GetMessages(u, c, DefaultLimit, 1))
  \/ \E u \in Users, c \in ConvIds : ReadLogged(u, c, GetConversation(u, c))

SpecUnread == InitOpen /\ [][UnreadNext]_vars

\* muting and message content, with the mute calls logged
SendTexts == {<<>>, <<" ">>, <<"a">>}
FileInputs == {None, "image/"}

MuteNext ==
  \/ \E r \in Users : Unlogged(PostConversations("u1", r, FALSE, NoGroupInfo))
  \/ \E u \in Users, c \in ConvIds, t \in SendTexts, f \in FileInputs :
        Unlogged(SendMessage(u, c, t, f, 0))
  \/ \E u \in Users, c \in ConvIds : MuteLogged(u, c, Mute(u, c))
  \/ \E u \in Users, c \in ConvIds : UnmuteLogged(u, c, Unmute(u, c))

SpecMute == InitOpen /\ [][MuteNext]_vars

\* conversation membership: creation of direct and group conversations,
\* and the Conversation methods addParticipant / removeParticipant
MembershipNext ==
  \/ \E r \in {"u2", "u3"} : Unlogged(PostConversations("u1", r, FALSE, NoGroupInfo))
  \/ \E gi \in GroupInfos : Unlogged(PostConversations("u1", "u2", TRUE, gi))
  \/ \E c \in ConvIds, u \in Users : Unlogged(AddParticipant(c, u))
  \/ \E c \in ConvIds, u \in Users : Unlogged(RemoveParticipant(c, u))

SpecMembership == InitOpen /\ [][MembershipNext]_vars

\* editing against the clock, on the first MaxEditMsgs messages
TickSteps == {1, editTimeLimit}
EditTexts == {<<>>, <<" ">>, <<"b">>, <<" ", "b">>}

EditNext ==
  \/ Unlogged(PostConversations("u1", "u2", FALSE, NoGroupInfo))
  \/ \E c \in ConvIds :
        Len(msgs) < MaxEditMsgs /\ Unlogged(SendMessage("u1", c, <<"a">>, None, 0))
  \/ \E u \in {"u1", "u2"}, m \in MsgIds, t \in EditTexts : Unlogged(EditMessage(u, m, t))
  \/ \E d \in TickSteps : Unlogged(Tick(d))

SpecEdit == InitOpen /\ [][EditNext]_vars

\* soft deletion and listing
Limits == {1, DefaultLimit}
Pages == {1, 2}

DeleteNext ==
  \/ Unlogged(PostConversations("u1", "u2", FALSE, NoGroupInfo))
  \/ \E u \in {"u1", "u2"}, c \in ConvIds : Unlogged(SendMessage(u, c, <<"a">>, None, 0))
  \/ \E u \in {"u1", "u2"}, m \in MsgIds : Unlogged(DeleteMessage(u, m))
  \/ \E u \in {"u1", "u3"}, c \in ConvIds, l \in Limits, pg \in Pages :
        Unlogged(GetMessages(u, c, l, pg))

SpecDelete == InitOpen /\ [][DeleteNext]_vars

\* reactions
Emojis == {None, "x", "y"}

ReactNext ==
  \/ Unlogged(PostConversations("u1", "u2", FALSE, NoGroupInfo))
  \/ \E c \in ConvIds : Unlogged(SendMessage("u1", c, <<"a">>, None, 0))
  \/ \E u \in {"u1", "u2"}, m \in MsgIds, e \in Emojis : Unlogged(React(u, m, e))
  \/ \E u \in {"u1", "u2"}, m \in MsgIds : Unlogged(Unreact(u, m))

SpecReact == InitOpen /\ [][ReactNext]_vars


\* group conversations: u1 creates groups, with and without a recipientId
\* beside the groupInfo, and a direct conversation; everybody sends and
\* opens
GroupRequests ==
  {NoGroupInfo,
   GroupInfo(<<>>, TRUE, <<"u2">>, <<>>, 0),
   GroupInfo(<<"g">>, FALSE, <<>>, <<>>, 0),
   GroupInfo(<<"g">>, TRUE, <<"u2">>, <<"u2">>, 0),
   GroupInfo(<<"g">>, TRUE, <<"u2", "u3">>, <<>>, 2),
   GroupInfo(<<" ">>, TRUE, <<"u3">>, <<>>, 0)}

GroupNext ==
  \/ \E r \in {None, "u2"}, gi \in GroupRequests :
        Unlogged(PostConversations("u1", r, TRUE, gi))
  \/ Unlogged(PostConversations("u1", "u2", FALSE, NoGroupInfo))
  \/ \E u \in Users, c \in ConvIds : Unlogged(SendMessage(u, c, <<"a">>, None, 0))
  \/ \E u \in Users, c \in ConvIds : Unlogged(GetConversation(u, c))

SpecGroup == InitOpen /\ [][GroupNext]_vars


\* the REST send beside the socket.io server: u1 opens a direct
\* conversation with u2, both send, clients connect, join rooms, relay
\* send_message events and disconnect
MessageEvents ==
  {[receiverId |-> r, conversationId |-> 1, message |-> m] :
      r \in {None, "u1", "u2"}, m \in {1}}

RealtimeNext ==
  \/ Unlogged(PostConversations("u1", "u2", FALSE, NoGroupInfo))
  \/ \E u \in {"u1", "u2"}, c \in ConvIds : Unlogged(SendMessage(u, c, <<"a">>, None, 0))
  \/ \E s \in SocketIds : Unlogged(Connect(s))
  \/ \E s \in SocketIds, u \in {"u1", "u2"} : Unlogged(Join(s, u))
  \/ \E s \in SocketIds, d \in MessageEvents : Unlogged(SendMessageEvent(s, d))
  \/ \E s \in SocketIds : Unlogged(Disconnect(s))

SpecRealtime == InitOpen /\ [][RealtimeNext]_vars


\* authorship and deletion: u1 sends the first MaxEditMsgs messages, u1 and
\* u2 edit and delete, u2 reacts and unreacts
AuthorTexts == {<<>>, <<"b">>}
AuthorEmojis == {None, "x"}

AuthorNext ==
  \/ Unlogged(PostConversations("u1", "u2", FALSE, NoGroupInfo))
  \/ \E c \in ConvIds :
        Len(msgs) < MaxEditMsgs /\ Unlogged(SendMessage("u1", c, <<"a">>, None, 0))
  \/ \E u \in {"u1", "u2"}, m \in MsgIds, t \in AuthorTexts : Unlogged(EditMessage(u, m, t))
  \/ \E u \in {"u1", "u2"}, m \in MsgIds : Unlogged(DeleteMessage(u, m))
  \/ \E m \in MsgIds, e \in AuthorEmojis : Unlogged(React("u2", m, e))
  \/ \E m \in MsgIds : Unlogged(Unreact("u2", m))

SpecAuthor == InitOpen /\ [][AuthorNext]_vars


\* delivery and read marks against the clock: u1 sends the first
\* MaxEditMsgs messages, u1 and u2 list, and the Message methods
\* markAsDelivered / markAsRead are called on stored messages
DeliverNext ==
  \/ Unlogged(PostConversations("u1", "u2", FALSE, NoGroupInfo))
  \/ \E c \in ConvIds :
        Len(msgs) < MaxEditMsgs /\ Unlogged(SendMessage("u1", c, <<"a">>, None, 0))
  \/ \E u \in {"u1", "u2"}, c \in ConvIds : Unlogged(GetMessages(u, c, DefaultLimit, 1))
  \/ \E m \in MsgIds : Unlogged(MarkAsDelivered(m))
  \/ \E m \in MsgIds : Unlogged(MarkAsRead(m))
  \/ Unlogged(Tick(1))

SpecDeliver == InitOpen /\ [][DeliverNext]_vars


\* deletion of conversations: u1 and u2 open their direct conversation,
\* u1 sends, Conversation.softDelete is called for either of them, both
\* list their conversations
ConvDeleteNext ==
  \/ \E u \in {"u1", "u2"}, r \in {"u1", "u2"} :
        Unlogged(PostConversations(u, r, FALSE, NoGroupInfo))
  \/ \E c \in ConvIds : Unlogged(SendMessage("u1", c, <<"a">>, None, 0))
  \/ \E c \in ConvIds, u \in {"u1", "u2"} : Unlogged(SoftDeleteConversation(c, u))
  \/ \E u \in {"u1", "u2"}, l \in {1, DefaultConvLimit} : Unlogged(GetConversations(u, l, 1))
  \/ Unlogged(Tick(1))

SpecConvDelete == InitOpen /\ [][ConvDeleteNext]_vars


\* sends against a store that may reject a call: u1 opens a direct
\* conversation and a group with u2, both send, and any awaited store call
\* of a send may fail
FailPoints == {"message.save", "updateLastMessage", "incrementUnreadCount", "populate"}

SendFailureNext ==
  \/ Unlogged(PostConversations("u1", "u2", FALSE, NoGroupInfo))
  \/ Unlogged(PostConversations("u1", "u2", TRUE, GroupInfo(<<"g">>, TRUE, <<"u2">>, <<>>, 0)))
  \/ \E u \in {"u1", "u2"}, c \in ConvIds : Unlogged(SendMessage(u, c, <<"a">>, None, 0))
  \/ \E u \in {"u1", "u2"}, c \in ConvIds, f \in FailPoints :
        Unlogged(SendMessageStoreFailure(u, c, <<"a">>, None, 0, f))

SpecSendFailure == InitOpen /\ [][SendFailureNext]_vars


\* replies: u1 opens direct conversations with u2 and u3 and sends into
\* them, naming as replyTo nothing, a stored message or an id that no
\* message has
UnknownMsgId == MaxMsgs + 1

ReplyNext ==
  \/ \E r \in {"u2", "u3"} : Unlogged(PostConversations("u1", r, FALSE, NoGroupInfo))
  \/ \E c \in ConvIds, rt \in (0..Len(msgs)) \cup {UnknownMsgId} :
        Unlogged(SendMessage("u1", c, <<"a">>, None, rt))
  \/ \E u \in {"u1", "u2"}, c \in ConvIds : Unlogged(GetMessages(u, c, DefaultLimit, 1))

SpecReply == InitOpen /\ [][ReplyNext]_vars


\* typing indicators: u1 opens a direct conversation with u2, clients
\* connect, join user rooms and send typing_start / typing_stop
TypingNames == {"typing_start", "typing_stop"}

TypingEvents == {[conversationId |-> 1, userId |-> u] : u \in {"u1", "u2"}}

TypingNext ==
  \/ Unlogged(PostConversations("u1", "u2", FALSE, NoGroupInfo))
  \/ \E s \in SocketIds : Unlogged(Connect(s))
  \/ \E s \in SocketIds, u \in {"u1", "u2"} : Unlogged(Join(s, u))
  \/ \E s \in SocketIds, e \in TypingNames, d \in TypingEvents :
        Unlogged(TypingEvent(s, e, d))
  \/ \E s \in SocketIds : Unlogged(Disconnect(s))

SpecTyping == InitOpen /\ [][TypingNext]_vars


\* edits of uploads: u1 sends the first MaxEditMsgs messages, with or
\* without an upload, and u1 and u2 edit them
UploadInputs == {None, "image/", "video/", "application/"}

MediaEditNext ==
  \/ Unlogged(PostConversations("u1", "u2", FALSE, NoGroupInfo))
  \/ \E c \in ConvIds, t \in {<<>>, <<"a">>}, f \in UploadInputs :
        Len(msgs) < MaxEditMsgs /\ Unlogged(SendMessage("u1", c, t, f, 0))
  \/ \E u \in {"u1", "u2"}, m \in MsgIds, t \in AuthorTexts : Unlogged(EditMessage(u, m, t))

SpecMediaEdit == InitOpen /\ [][MediaEditNext]_vars


\* the per-participant toggles: u1 opens a direct conversation with u2, u3
\* is added to it, u1 and u3 mute and unmute through the routes, and the
\* Conversation methods pin, unpin, archive (at most MaxArchives entries)
\* and unarchive for them; everybody lists
ToggleNext ==
  \/ Unlogged(PostConversations("u1", "u2", FALSE, NoGroupInfo))
  \/ \E c \in ConvIds : Unlogged(AddParticipant(c, "u3"))
  \/ \E u \in {"u1", "u3"}, c \in ConvIds : Unlogged(Mute(u, c))
  \/ \E u \in {"u1", "u3"}, c \in ConvIds : Unlogged(Unmute(u, c))
  \/ \E u \in {"u1", "u3"}, c \in ConvIds : Unlogged(PinForUser(c, u))
  \/ \E u \in {"u1", "u3"}, c \in ConvIds : Unlogged(UnpinForUser(c, u))
  \/ \E u \in {"u1", "u3"}, c \in ConvIds :
        /\ c \in 1..Len(convs)
        /\ Len(convs[c].archivedBy) < MaxArchives
        /\ Unlogged(ArchiveForUser(c, u))
  \/ \E u \in {"u1", "u3"}, c \in ConvIds : Unlogged(UnarchiveForUser(c, u))
  \/ \E u \in Users : Unlogged(GetConversations(u, DefaultConvLimit, 1))

SpecToggle == InitOpen /\ [][ToggleNext]_vars


\* edit history: u1 sends the first MaxEditMsgs messages and edits them,
\* u2 reacts and lists
HistoryTexts == {<<"b">>, <<" ", "c">>}

HistoryNext ==
  \/ Unlogged(PostConversations("u1", "u2", FALSE, NoGroupInfo))
  \/ \E c \in ConvIds :
        Len(msgs) < MaxEditMsgs /\ Unlogged(SendMessage("u1", c, <<"a">>, None, 0))
  \/ \E m \in MsgIds, t \in HistoryTexts : Unlogged(EditMessage("u1", m, t))
  \/ \E m \in MsgIds : Unlogged(React("u2", m, "x"))
  \/ \E c \in ConvIds : Unlogged(GetMessages("u2", c, DefaultLimit, 1))

SpecHistory == InitOpen /\ [][HistoryNext]_vars


\* listing in direct and group conversations: u1 opens a direct
\* conversation and a group with u2, both send and both list
ListNext ==
  \/ Unlogged(PostConversations("u1", "u2", FALSE, NoGroupInfo))
  \/ Unlogged(PostConversations("u1", "u2", TRUE, GroupInfo(<<"g">>, TRUE, <<"u2">>, <<>>, 0)))
  \/ \E u \in {"u1", "u2"}, c \in ConvIds : Unlogged(SendMessage(u, c, <<"a">>, None, 0))
  \/ \E u \in {"u1", "u2"}, c \in ConvIds, l \in Limits, pg \in Pages :
        Unlogged(GetMessages(u, c, l, pg))

SpecList == InitOpen /\ [][ListNext]_vars


\* sends one after another: u1 opens direct conversations with u2 and u3,
\* the participants send, and a request starts only when no other request
\* is between two awaits
AllIdle == \A q \in RequestIds : inflight[q].pc = "idle"

SequentialSendNext ==
  \/ \E r \in {"u2", "u3"} : Unlogged(PostConversations("u1", r, FALSE, NoGroupInfo))
  \/ \E r \in RequestIds, u \in Users, c \in ConvIds :
        AllIdle /\ Unlogged(SendFind(r, u, c, <<"a">>))
  \/ \E r \in RequestIds : Unlogged(SendSaveMessage(r))
  \/ \E r \in RequestIds : Unlogged(SendSaveLastMessage(r))
  \/ \E r \in RequestIds : Unlogged(SendSaveUnreadCount(r))

SpecSequentialSend == InitOpen /\ [][SequentialSendNext]_vars

\* concurrent creation: u1 and u2 open the direct conversation between
\* them, or one with u3, in overlapping requests
ConcurrentCreateNext ==
  \/ \E r \in RequestIds, u \in {"u1", "u2"}, t \in Users :
        Unlogged(CreateFind(r, u, t))
  \/ \E r \in RequestIds : Unlogged(CreateSave(r))

SpecConcurrentCreate == InitOpen /\ [][ConcurrentCreateNext]_vars


\* rooms of the socket.io server: the clients of u1 and u2 connect, join
\* rooms, relay send_message events for any receiver and disconnect
RoomEvents ==
  {[receiverId |-> r, conversationId |-> 1, message |-> 1] : r \in Users}

RoomsNext ==
  \/ \E s \in SocketIds : Unlogged(Connect(s))
  \/ \E s \in SocketIds, u \in Users : Unlogged(Join(s, u))
  \/ \E s \in SocketIds, d \in RoomEvents : Unlogged(SendMessageEvent(s, d))
  \/ \E s \in SocketIds : Unlogged(Disconnect(s))

SpecRooms == InitOpen /\ [][RoomsNext]_vars


\* blocking beside an existing conversation: u1 and u2 open the direct
\* conversation between them, block and unblock each other, and send
BlockSendNext ==
  \/ \E u, t \in {"u1", "u2"} : Unlogged(PostConversations(u, t, FALSE, NoGroupInfo))
  \/ \E u, t \in {"u1", "u2"} : Unlogged(Block(u, t))
  \/ \E u, t \in {"u1", "u2"} : Unlogged(Unblock(u, t))
  \/ \E u \in {"u1", "u2"}, c \in ConvIds : Unlogged(SendMessage(u, c, <<"a">>, None, 0))

SpecBlockSend == InitOpen /\ [][BlockSendNext]_vars

\* reactions by participants and by an outsider: u1 opens the direct
\* conversation with u2 and sends, u2 and u3 react and take their
\* reactions back
OutsiderNext ==
  \/ Unlogged(PostConversations("u1", "u2", FALSE, NoGroupInfo))
  \/ \E c \in ConvIds : Unlogged(SendMessage("u1", c, <<"a">>, None, 0))
  \/ \E u \in {"u2", "u3"}, m \in MsgIds, e \in AuthorEmojis : Unlogged(React(u, m, e))
  \/ \E u \in {"u2", "u3"}, m \in MsgIds : Unlogged(Unreact(u, m))

SpecOutsider == InitOpen /\ [][OutsiderNext]_vars

\* ------------------------------------------------------------- properties
\* the non-deleted direct conversations between a and b
DirectBetween(cs, a, b) ==
  {i \in 1..Len(cs) : /\ ~cs[i].isGroup
                      /\ ~cs[i].isDeleted
                      /\ Range(cs[i].participants) = {a, b}}

\* neither user has blocked the other and b's messaging policy admits a
Admits(a, b) ==
  /\ a # b
  /\ a \notin blockedUsers[b]
  /\ b \notin blockedUsers[a]
  /\ (allowMessagesFrom[b] = "everyone" \/ a \in followers[b])

\* C1: for distinct users A and B with no block and an admitting policy,
\* a successful findOrCreateDirect(A,B) leaves exactly one non-deleted
\* direct conversation between them and returns it, and a second
\* findOrCreateDirect(A,B) right after it returns the same conversation id
C1_FirstCall ==
  (resp.op = "findOrCreateDirect" /\ resp.status = 200)
     => /\ Cardinality(DirectBetween(convs, resp.user, resp.to)) = 1
        /\ resp.conv \in DirectBetween(convs, resp.user, resp.to)

C1_SecondCall ==
  \A a \in Users, b \in Users :
    ( /\ resp.op = "findOrCreateDirect" /\ resp.status = 200
      /\ resp.user = a /\ resp.to = b
      /\ Admits(a, b)
      /\ PostConversations(a, b, FALSE, NoGroupInfo) )
    => /\ resp'.status = 200
       /\ resp'.conv = resp.conv
       /\ Cardinality(DirectBetween(convs', a, b)) = 1

C1_FindOrCreateIdempotent == []C1_FirstCall /\ [][C1_SecondCall]_vars

\* C1 witness: a direct conversation has been returned for a pair, and it
\* is not the first conversation of the store
C1_Witness ==
  /\ resp.op = "findOrCreateDirect" /\ resp.status = 200
  /\ resp.conv = 2
  /\ Len(convs) = 2
  /\ Admits(resp.user, resp.to)

\* C4: findOrCreateDirect(sender, recipient) is rejected and creates no
\* conversation when either user has blocked the other, or when the
\* recipient accepts messages from followers only and the sender is not
\* one of the recipient's followers
Denied(u, r) ==
  \/ u \in blockedUsers[r]
  \/ r \in blockedUsers[u]
  \/ (allowMessagesFrom[r] = "followers" /\ u \notin followers[r])

C4_Step ==
  \A u \in Users, r \in Users :
    (u # r /\ Denied(u, r) /\ PostConversations(u, r, FALSE, NoGroupInfo))
    => /\ resp'.status = 403
       /\ convs' = convs

C4_BlockedOrPrivacyDenied == [][C4_Step]_vars

\* C4 witness: B asked for a conversation with A, who has blocked B, while
\* A's policy alone would have admitted B
C4_Witness ==
  /\ resp.op = "findOrCreateDirect" /\ resp.status = 403
  /\ resp.to \in Users
  /\ resp.user \in blockedUsers[resp.to]
  /\ allowMessagesFrom[resp.to] = "everyone"

\* C2: in a direct conversation, a participant who has not read it has an
\* unread count equal to the number of messages the other participant
\* sent into it, and a participant whose read was just answered has an
\* unread count of 0
SentByOthers(c, p) ==
  Cardinality({i \in 1..Len(msgs) : msgs[i].conversation = c /\ msgs[i].sender # p})

C2_UnreadCountIsSentByOthers ==
  \A c \in 1..Len(convs) :
    ~convs[c].isGroup =>
      \A p \in Range(convs[c].participants) :
        /\ <<c, p>> \notin readCalls
              => getUnreadCount(convs[c], p) = SentByOthers(c, p)
        /\ ( /\ resp.op \in {"listByConversation", "getConversation"}
             /\ resp.status = 200 /\ resp.conv = c /\ resp.user = p )
              => getUnreadCount(convs[c], p) = 0

\* C3: while a participant's latest answered mute / unmute call on a
\* conversation is a mute, each of her sends into it fails and stores no
\* message; a send of text by a participant who is not muted succeeds
C3_Step ==
  \A u \in Users, c \in ConvIds, t \in SendTexts, f \in FileInputs :
    ( /\ c \in 1..Len(convs)
      /\ u \in Range(convs[c].participants)
      /\ SendMessage(u, c, t, f, 0) )
    => IF <<c, u>> \in muteCalls
       THEN resp'.status >= 400 /\ msgs' = msgs
       ELSE t = <<"a">> => resp'.status = 201

C3_MutedSenderCannotSend == [][C3_Step]_vars

\* C5: an edit requested more than 15 minutes (900000 ms) after the
\* message was created fails whatever the new text is, and leaves the
\* message as it was
C5_Step ==
  \A u \in Users, m \in MsgIds, t \in EditTexts :
    ( /\ m \in 1..Len(msgs)
      /\ now - msgs[m].createdAt > 900000
      /\ EditMessage(u, m, t) )
    => /\ resp'.status >= 400
       /\ msgs' = msgs

C5_EditWindowExpired == [][C5_Step]_vars

\* C5 witness: the sender's edit with a non-empty text was refused more
\* than 15 minutes after the creation of a message that she had edited
\* successfully before
C5_Witness ==
  /\ resp.op = "edit" /\ resp.status = 400
  /\ resp.msg \in 1..Len(msgs)
  /\ msgs[resp.msg].sender = resp.user
  /\ msgs[resp.msg].isEdited
  /\ resp.at - msgs[resp.msg].createdAt > 900000

\* C6: a soft-deleted message is on no page returned by
\* listByConversation; its record stays in the store under the same id
\* with isDeleted, deletedAt and deletedBy set; no step removes a message
C6_DeletedKept ==
  \A i \in 1..Len(msgs) :
    msgs[i].isDeleted => msgs[i].deletedAt # <<>> /\ msgs[i].deletedBy \in Users

C6_Step ==
  /\ Len(msgs') >= Len(msgs)
  /\ \A i \in 1..Len(msgs) :
       /\ msgs'[i].conversation = msgs[i].conversation
       /\ msgs'[i].sender = msgs[i].sender
       /\ msgs'[i].createdAt = msgs[i].createdAt
  /\ \A u \in Users, c \in ConvIds, l \in Limits, pg \in Pages :
       GetMessages(u, c, l, pg) =>
          \A k \in Range(resp'.page) : k \in 1..Len(msgs') /\ ~msgs'[k].isDeleted

C6_SoftDeletedHiddenButKept == []C6_DeletedKept /\ [][C6_Step]_vars

\* C6 witness: the first page of default size of a conversation was
\* returned without a soft-deleted message that is older than a message
\* on the page
C6_Witness ==
  /\ resp.op = "listByConversation" /\ resp.status = 200
  /\ resp.query = <<DefaultLimit, 1>>
  /\ \E i \in 1..Len(msgs), k \in Range(resp.page) :
       /\ msgs[i].conversation = resp.conv
       /\ msgs[i].isDeleted
       /\ i < k
       /\ i \notin Range(resp.page)

\* C7: a message holds at most one reaction per user; a react replaces the
\* caller's reaction by one carrying the new emoji and leaves the
\* reactions of the other users as they were
ReactionsOf(m, u) == SelectSeq(m.reactions, LAMBDA r : r.user = u)
ReactionsOfOthers(m, u) == SelectSeq(m.reactions, LAMBDA r : r.user # u)

C7_AtMostOne ==
  \A i \in 1..Len(msgs) : \A u \in Users : Len(ReactionsOf(msgs[i], u)) <= 1

C7_Step ==
  /\ \A u \in Users, m \in MsgIds, e \in Emojis \ {None} :
       (m \in 1..Len(msgs) /\ React(u, m, e))
       => /\ ReactionsOf(msgs'[m], u) = <<[user |-> u, emoji |-> e]>>
          /\ ReactionsOfOthers(msgs'[m], u) = ReactionsOfOthers(msgs[m], u)
  /\ \A u \in Users, m \in MsgIds :
       (m \in 1..Len(msgs) /\ Unreact(u, m))
       => /\ ReactionsOf(msgs'[m], u) = <<>>
          /\ ReactionsOfOthers(msgs'[m], u) = ReactionsOfOthers(msgs[m], u)

C7_OneReactionPerUser == []C7_AtMostOne /\ [][C7_Step]_vars

\* C7 witness: a react was answered on a message that carries the
\* caller's reaction "y" behind another user's reaction
C7_Witness ==
  /\ resp.op = "react" /\ resp.status = 200
  /\ resp.msg \in 1..Len(msgs)
  /\ Len(msgs[resp.msg].reactions) = 2
  /\ msgs[resp.msg].reactions[2] = [user |-> resp.user, emoji |-> "y"]

\* C8: the sender of a message is a participant of its conversation when
\* it is stored; a send, a listing, a mute or an unmute by a user who is
\* not a participant is refused and changes no message and no conversation
C8_Step ==
  /\ Len(msgs') > Len(msgs) =>
       LET m == msgs'[Len(msgs')]
       IN  /\ m.conversation \in 1..Len(convs)
           /\ m.sender \in Range(convs[m.conversation].participants)
  /\ \A u \in Users, c \in ConvIds :
       ( /\ c \in 1..Len(convs)
         /\ u \notin Range(convs[c].participants)
         /\ \/ SendMessage(u, c, <<"a">>, None, 0)
            \/ GetMessages(u, c, DefaultLimit, 1)
            \/ Mute(u, c)
            \/ Unmute(u, c) )
       => /\ resp'.status = 403
          /\ msgs' = msgs
          /\ convs' = convs

C8_OnlyParticipantsAct == [][C8_Step]_vars

\* C8 witness: a send by a user outside a conversation that already holds
\* a message was refused
C8_Witness ==
  /\ resp.op = "send" /\ resp.status = 403
  /\ resp.conv \in 1..Len(convs)
  /\ resp.user \notin Range(convs[resp.conv].participants)
  /\ \E i \in 1..Len(msgs) : msgs[i].conversation = resp.conv

\* C9: in every conversation each participant has exactly one
\* unreadCounts entry and exactly one participantSettings entry, and no
\* entry belongs to a user who is not a participant
EntriesOf(s, u) == Cardinality({k \in 1..Len(s) : s[k].user = u})

C9_OneEntryPerParticipant ==
  \A c \in 1..Len(convs) : \A u \in Users :
    LET n == IF u \in Range(convs[c].participants) THEN 1 ELSE 0
    IN  /\ EntriesOf(convs[c].unreadCounts, u) = n
        /\ EntriesOf(convs[c].participantSettings, u) = n

\* C10: a send of an empty or whitespace-only text without an upload
\* fails, stores no message and changes no conversation
C10_Step ==
  \A u \in Users, c \in ConvIds, t \in SendTexts :
    (Trim(t) = <<>> /\ SendMessage(u, c, t, None, 0))
    => /\ resp'.status >= 400
       /\ msgs' = msgs
       /\ convs' = convs

C10_EmptyTextRejected == [][C10_Step]_vars


\* C11: a successful send into a conversation, direct or group, raises the
\* unread count of every participant other than the sender by exactly one
\* and leaves the sender's unread count as it was
C11_Step ==
  \A u \in Users, c \in ConvIds :
    ( /\ c \in 1..Len(convs)
      /\ SendMessage(u, c, <<"a">>, None, 0)
      /\ resp'.status = 201 )
    => \A p \in Range(convs[c].participants) :
         getUnreadCount(convs'[c], p) =
            getUnreadCount(convs[c], p) + (IF p # u THEN 1 ELSE 0)

C11_UnreadIncrementedForOthers == [][C11_Step]_vars


\* C12: when a send is answered with success, every connection registered
\* for a participant other than the sender has been sent a new-message
\* event for the stored message by the server itself; the server has no
\* later step of its own that could emit it, the socket handlers only
\* pass on what a client sends them
C12_Step ==
  \A u \in Users, c \in ConvIds :
    ( /\ c \in 1..Len(convs)
      /\ SendMessage(u, c, <<"a">>, None, 0)
      /\ resp'.status = 201 )
    => \A p \in Range(convs[c].participants) \ {u} :
         \A s \in SocketIds :
           (sockets[s].connected /\ p \in sockets[s].rooms)
           => \E e \in sockets'[s].received \ sockets[s].received :
                e.data.message = resp'.msg

C12_SendEmitsNewMessageEvent == [][C12_Step]_vars


\* C13: an edit or a softDelete of a message asked for by a user who is not
\* its sender is refused, whatever text the request carries, and leaves
\* every message (text, editHistory, isEdited, isDeleted, deletedBy) as it
\* was
C13_Step ==
  \A u \in Users, m \in MsgIds :
    ( /\ m \in 1..Len(msgs)
      /\ msgs[m].sender # u
      /\ \/ \E t \in AuthorTexts : EditMessage(u, m, t)
         \/ DeleteMessage(u, m) )
    => /\ resp'.status >= 400
       /\ msgs' = msgs

C13_OnlyAuthorEditsOrDeletes == [][C13_Step]_vars

\* C13 witness: a softDelete by a user other than the sender was refused
\* on a message that its sender had edited and that is not deleted
C13_Witness ==
  /\ resp.op = "softDelete" /\ resp.status = 403
  /\ resp.msg \in 1..Len(msgs)
  /\ msgs[resp.msg].sender # resp.user
  /\ msgs[resp.msg].isEdited
  /\ ~msgs[resp.msg].isDeleted

\* C14: a deleted message stays deleted, and keeps its text, editHistory
\* and reactions; an edit or a react on a deleted message is refused
C14_Step ==
  /\ \A i \in 1..Len(msgs) :
       msgs[i].isDeleted
       => /\ i \in 1..Len(msgs')
          /\ msgs'[i].isDeleted
          /\ msgs'[i].text = msgs[i].text
          /\ msgs'[i].editHistory = msgs[i].editHistory
          /\ msgs'[i].reactions = msgs[i].reactions
  /\ \A u \in Users, m \in MsgIds :
       ( /\ m \in 1..Len(msgs)
         /\ msgs[m].isDeleted
         /\ \/ \E t \in AuthorTexts : EditMessage(u, m, t)
            \/ \E e \in AuthorEmojis : React(u, m, e) )
       => /\ resp'.status >= 400
          /\ msgs' = msgs

C14_DeletedIsTerminal == [][C14_Step]_vars

\* C14 witness: a react was refused on a deleted message that had been
\* edited and carries a reaction from before its deletion
C14_Witness ==
  /\ resp.op = "react" /\ resp.status = 404
  /\ resp.msg \in 1..Len(msgs)
  /\ msgs[resp.msg].isDeleted
  /\ msgs[resp.msg].isEdited
  /\ msgs[resp.msg].reactions # <<>>


\* C15: isDelivered and isRead never go back to false, and deliveredAt and
\* readAt keep the value of the first mark; a markAsDelivered / markAsRead
\* on a message that is already delivered / read succeeds and changes
\* nothing
C15_Step ==
  /\ \A i \in 1..Len(msgs) :
       /\ msgs[i].isDelivered
            => /\ msgs'[i].isDelivered
               /\ msgs'[i].deliveredAt = msgs[i].deliveredAt
       /\ msgs[i].isRead
            => /\ msgs'[i].isRead
               /\ msgs'[i].readAt = msgs[i].readAt
  /\ \A m \in MsgIds :
       /\ (m \in 1..Len(msgs) /\ msgs[m].isDelivered /\ MarkAsDelivered(m))
            => resp'.status = 200 /\ msgs' = msgs
       /\ (m \in 1..Len(msgs) /\ msgs[m].isRead /\ MarkAsRead(m))
            => resp'.status = 200 /\ msgs' = msgs

C15_DeliveredAndReadMonotonic == [][C15_Step]_vars

\* C15 witness: a markAsDelivered was answered later than the time at
\* which the message had been marked delivered by a listing or an earlier
\* call, on a message that is also read
C15_Witness ==
  /\ resp.op = "markDelivered" /\ resp.status = 200
  /\ resp.msg \in 1..Len(msgs)
  /\ msgs[resp.msg].isDelivered
  /\ msgs[resp.msg].deliveredAt # <<>>
  /\ msgs[resp.msg].deliveredAt[1] < resp.at
  /\ msgs[resp.msg].isRead


\* the maximum a group request asks for: groupInfo.maxParticipants, or the
\* schema default when the request names none
RequestedMax(gi) ==
  IF gi.maxParticipants = 0 THEN DefaultMaxParticipants ELSE gi.maxParticipants

\* C16: a group creation with a non-empty groupInfo.name, a participant
\* list and a participant count within the maximum is answered 201 and
\* stores a group whose participants are the creator and the listed users
\* and whose admins are the creator alone, whatever admins the request
\* carried; a group creation with a missing or empty name is refused and
\* stores nothing
C16_Step ==
  \A u \in Users, r \in Users \cup {None}, gi \in GroupRequests :
    PostConversations(u, r, TRUE, gi)
    => IF ~gi.present \/ gi.name = <<>>
       THEN resp'.status >= 400 /\ convs' = convs
       ELSE ( /\ gi.hasParticipants
              /\ Cardinality(Range(gi.participants)) + 1 <= RequestedMax(gi) )
            => /\ resp'.status = 201
               /\ Len(convs') = Len(convs) + 1
               /\ convs'[Len(convs')].isGroup
               /\ Range(convs'[Len(convs')].participants) = {u} \cup Range(gi.participants)
               /\ Range(convs'[Len(convs')].admins) = {u}

C16_CreateGroup == [][C16_Step]_vars

\* C17: a group creation whose participant list plus the creator exceeds
\* the maximum is refused and stores nothing, and no stored group has more
\* participants than its maxParticipants
C17_WithinMax ==
  \A c \in 1..Len(convs) :
    convs[c].isGroup
    => Cardinality(Range(convs[c].participants)) <= convs[c].maxParticipants

C17_Step ==
  \A u \in Users, r \in Users \cup {None}, gi \in GroupRequests :
    ( /\ gi.hasParticipants
      /\ Cardinality(Range(gi.participants)) + 1 > RequestedMax(gi)
      /\ PostConversations(u, r, TRUE, gi) )
    => resp'.status >= 400 /\ convs' = convs

C17_GroupSizeBounded == []C17_WithinMax /\ [][C17_Step]_vars


\* C18: no conversation record is ever removed; a conversation that one
\* participant has soft-deleted is still on the list of conversations of
\* every other participant who has not deleted it, and findOrCreateDirect
\* by such a participant still returns it instead of creating another
KeptBy(c, u) ==
  /\ u \in Range(convs[c].participants)
  /\ u \notin Range(convs[c].deletedBy)
  /\ \A k \in 1..Len(convs[c].archivedBy) : convs[c].archivedBy[k].user # u

C18_Step ==
  /\ Len(convs') >= Len(convs)
  /\ \A u \in Users :
       GetConversations(u, DefaultConvLimit, 1)
       => \A c \in 1..Len(convs) : KeptBy(c, u) => c \in Range(resp'.page)
  /\ \A u \in Users, r \in Users :
       ( /\ PostConversations(u, r, FALSE, NoGroupInfo)
         /\ resp'.status = 200
         /\ \E c \in 1..Len(convs) :
               /\ ~convs[c].isGroup
               /\ Range(convs[c].participants) = {u, r}
               /\ KeptBy(c, u) )
       => /\ convs' = convs
          /\ KeptBy(resp'.conv, u)
          /\ Range(convs[resp'.conv].participants) = {u, r}

C18_ConversationDeletedPerUser == [][C18_Step]_vars


\* C19: a send that is answered with a failure, a failure of the store
\* while the conversation is updated included, has stored no message; a
\* send that has stored a message has also set the conversation's
\* last-message pointer, applied the unread-counter update and been
\* answered with success
C19_Step ==
  \A u \in Users, c \in ConvIds :
    ( /\ c \in 1..Len(convs)
      /\ \/ SendMessage(u, c, <<"a">>, None, 0)
         \/ \E f \in FailPoints : SendMessageStoreFailure(u, c, <<"a">>, None, 0, f) )
    => /\ resp'.status >= 400 => msgs' = msgs
       /\ Len(msgs') > Len(msgs)
            => /\ resp'.status = 201
               /\ convs'[c].lastMessage = Len(msgs')
               /\ convs'[c].totalMessages = convs[c].totalMessages + 1
               /\ convs'[c].unreadCounts =
                     (IF convs[c].isGroup THEN convs[c]
                      ELSE incrementUnreadCount(convs[c], msgs'[Len(msgs')].recipient)).unreadCounts

C19_SendAllOrNothing == [][C19_Step]_vars


\* C20: every stored message that has a replyTo names a stored message of
\* its own conversation, and a send whose replyTo names a message of
\* another conversation stores no such message
C20_ReplyInSameConversation ==
  \A m \in 1..Len(msgs) :
    msgs[m].replyTo # 0
    => /\ msgs[m].replyTo \in 1..Len(msgs)
       /\ msgs[msgs[m].replyTo].conversation = msgs[m].conversation

C20_Step ==
  \A u \in Users, c \in ConvIds, rt \in 1..Len(msgs) :
    (msgs[rt].conversation # c /\ SendMessage(u, c, <<"a">>, None, rt))
    => msgs' = msgs

C20_NoCrossConversationReply == []C20_ReplyInSameConversation /\ [][C20_Step]_vars


\* C21: a typing_start or typing_stop sent on a connection for a
\* conversation reaches, with the payload it was sent with, every
\* connection registered for another participant of that conversation,
\* and reaches no connection registered for the sending user
C21_Step ==
  \A s \in SocketIds, e \in TypingNames, d \in TypingEvents :
    ( /\ d.conversationId \in 1..Len(convs)
      /\ d.userId \in Range(convs[d.conversationId].participants)
      /\ TypingEvent(s, e, d) )
    => \A t \in SocketIds :
         /\ ( /\ t # s
              /\ sockets[t].connected
              /\ \E p \in Range(convs[d.conversationId].participants) \ {d.userId} :
                    p \in sockets[t].rooms )
            => [event |-> e, data |-> d] \in sockets'[t].received
         /\ d.userId \in sockets[t].rooms
            => sockets'[t].received = sockets[t].received

C21_TypingFannedOut == [][C21_Step]_vars


\* C22: an edit of a message whose content type is not text is answered
\* with a failure and leaves every message as it was
C22_Step ==
  \A u \in Users, m \in MsgIds, t \in AuthorTexts :
    ( /\ m \in 1..Len(msgs)
      /\ msgs[m].ctype # "text"
      /\ EditMessage(u, m, t) )
    => /\ resp'.status >= 400
       /\ msgs' = msgs

C22_NonTextEditFails == [][C22_Step]_vars


\* C23: a mute, unmute, pin, unpin, archive or unarchive for a participant
\* brings the conversation to a state that the same toggle, applied again,
\* leaves as it is; it changes no other participant's settings and no
\* other user's list of conversations; a user is recorded as archiver of
\* a conversation at most once
SettingsOf(cv, p) == SelectSeq(cv.participantSettings, LAMBDA e : e.user = p)

C23_ArchivedOnce ==
  \A c \in 1..Len(convs) : \A u \in Users : EntriesOf(convs[c].archivedBy, u) <= 1

C23_Step ==
  \A c \in ConvIds, u \in Users :
    (c \in 1..Len(convs) /\ u \in Range(convs[c].participants))
    => /\ Mute(u, c) => muteForUser(convs'[c], u) = convs'[c]
       /\ Unmute(u, c) => unmuteForUser(convs'[c], u) = convs'[c]
       /\ PinForUser(c, u) => pinForUser(convs'[c], u) = convs'[c]
       /\ UnpinForUser(c, u) => unpinForUser(convs'[c], u) = convs'[c]
       /\ ArchiveForUser(c, u) => archiveForUser(convs'[c], u) = convs'[c]
       /\ UnarchiveForUser(c, u) => unarchiveForUser(convs'[c], u) = convs'[c]
       /\ ( \/ Mute(u, c) \/ Unmute(u, c)
            \/ PinForUser(c, u) \/ UnpinForUser(c, u)
            \/ ArchiveForUser(c, u) \/ UnarchiveForUser(c, u) )
          => \A p \in Users \ {u} :
               /\ SettingsOf(convs'[c], p) = SettingsOf(convs[c], p)
               /\ ListedFor(convs', p) = ListedFor(convs, p)

C23_TogglesIdempotentAndScoped == []C23_ArchivedOnce /\ [][C23_Step]_vars


\* C24: each successful edit of a text message appends the text that was
\* current before it to editHistory, makes the new text current, sets
\* isEdited and leaves the sender, the conversation, the reactions and
\* the delivery and read flags alone; nothing else changes editHistory or
\* the text, so after k successful edits editHistory holds the k earlier
\* texts in order
C24_EditedIffHistory ==
  \A i \in 1..Len(msgs) : msgs[i].isEdited <=> msgs[i].editHistory # <<>>

C24_Step ==
  \A i \in 1..Len(msgs) :
    /\ \A u \in Users, t \in HistoryTexts :
         (EditMessage(u, i, t) /\ resp'.status = 200 /\ msgs[i].ctype = "text")
         => /\ msgs'[i].editHistory = Append(msgs[i].editHistory, msgs[i].text)
            /\ msgs'[i].text = Trim(t)
            /\ msgs'[i].isEdited
            /\ msgs'[i].sender = msgs[i].sender
            /\ msgs'[i].conversation = msgs[i].conversation
            /\ msgs'[i].reactions = msgs[i].reactions
            /\ msgs'[i].isDelivered = msgs[i].isDelivered
            /\ msgs'[i].deliveredAt = msgs[i].deliveredAt
            /\ msgs'[i].isRead = msgs[i].isRead
            /\ msgs'[i].readAt = msgs[i].readAt
    /\ ~(\E u \in Users, t \in HistoryTexts : EditMessage(u, i, t) /\ resp'.status = 200)
         => /\ msgs'[i].editHistory = msgs[i].editHistory
            /\ msgs'[i].text = msgs[i].text
            /\ msgs'[i].isEdited = msgs[i].isEdited

C24_EditHistoryRecordsEdits == []C24_EditedIffHistory /\ [][C24_Step]_vars

\* C24 witness: a second edit was answered on a delivered message that
\* carries a reaction: its history is the original text followed by the
\* text of the first edit, and its text that of the second
C24_Witness ==
  /\ resp.op = "edit" /\ resp.status = 200
  /\ resp.msg \in 1..Len(msgs)
  /\ msgs[resp.msg].editHistory = << <<"a">>, <<"b">> >>
  /\ msgs[resp.msg].text = <<"c">>
  /\ msgs[resp.msg].isEdited
  /\ msgs[resp.msg].reactions # <<>>
  /\ msgs[resp.msg].isDelivered


\* C25: when a listing has been answered, every message on the returned
\* page whose recipient is the requester is delivered, and the listing
\* has set the delivered flag on no message addressed to another user and
\* on no message sent by the requester
C25_Step ==
  \A u \in Users, c \in ConvIds, l \in Limits, pg \in Pages :
    (GetMessages(u, c, l, pg) /\ resp'.status = 200)
    => /\ \A k \in Range(resp'.page) :
            msgs'[k].recipient = u => msgs'[k].isDelivered
       /\ \A i \in 1..Len(msgs) :
            (msgs'[i].isDelivered /\ ~msgs[i].isDelivered)
            => /\ msgs[i].recipient = u
               /\ msgs[i].sender # u

C25_ListMarksDelivered == [][C25_Step]_vars


\* the messages of conversation c addressed to u
SentTo(c, u) ==
  {m \in 1..Len(msgs) : msgs[m].conversation = c /\ msgs[m].recipient = u}

\* C26: when sends into a direct conversation run one after another and
\* nobody reads, then once every send has been answered the unread count
\* of each participant equals the number of messages sent to them (the
\* sequential half of the claim; the other half says that overlapping
\* sends can leave the count lower)
C26_SequentialSendsAllCounted ==
  AllIdle =>
    \A c \in 1..Len(convs) : \A u \in Range(convs[c].participants) :
      ~convs[c].isGroup => getUnreadCount(convs[c], u) = Cardinality(SentTo(c, u))

\* C27: whatever the interleaving of findOrCreateDirect requests, there is
\* at most one non-deleted direct conversation between two users, and a
\* request that is answered with a conversation is answered with that one
C27_AtMostOneDirect ==
  /\ \A a, b \in Users : Cardinality(DirectBetween(convs, a, b)) <= 1
  /\ (resp.op = "findOrCreateDirect" /\ resp.status = 200) =>
        DirectBetween(convs, resp.user, resp.to) = {resp.conv}


\* C28: a send_message event relayed for receiver id U reaches only
\* connections opened by U's client, whatever rooms the connections have
\* joined before
C28_Step ==
  \A s \in SocketIds, d \in RoomEvents :
    SendMessageEvent(s, d)
    => \A t \in SocketIds :
         sockets'[t].received # sockets[t].received
         => ConnectionUser[t] = d.receiverId

C28_RelayReachesOnlyReceiver == [][C28_Step]_vars


\* C29: while A has B in blockedUsers, a send by B into the direct
\* conversation between A and B is refused, stores no message and leaves
\* A's unread count as it was
C29_Step ==
  \A a, b \in {"u1", "u2"}, c \in ConvIds :
    ( /\ b \in blockedUsers[a]
      /\ c \in DirectBetween(convs, a, b)
      /\ SendMessage(b, c, <<"a">>, None, 0) )
    => /\ resp'.status >= 400
       /\ msgs' = msgs
       /\ getUnreadCount(convs'[c], a) = getUnreadCount(convs[c], a)

C29_BlockStopsSends == [][C29_Step]_vars

\* C30: a react or unreact asked for by a user who is not a participant of
\* the message's conversation is refused and leaves the reactions of every
\* message as they were
C30_Step ==
  \A u \in Users, m \in MsgIds :
    ( /\ m \in 1..Len(msgs)
      /\ u \notin Range(convs[msgs[m].conversation].participants)
      /\ \/ \E e \in AuthorEmojis : React(u, m, e)
         \/ Unreact(u, m) )
    => /\ resp'.status >= 400
       /\ \A k \in 1..Len(msgs) : msgs'[k].reactions = msgs[k].reactions

C30_OnlyParticipantsReact == [][C30_Step]_vars

====
